---- MODULE Spec2Model ----
(***************************************************************************)
(* The rosserial client node handle (ros_lib/ros/node_handle.cpp): the     *)
(* byte-at-a-time receive state machine of spinOnce, its dispatcher, the   *)
(* time synchronisation, the connection timeout, the publisher/subscriber  *)
(* registry and the blocking parameter request.                            *)
(*                                                                         *)
(* The node handle is the object `nh` of time_test.cpp:20, which has       *)
(* static storage: members the constructor does not mention                *)
(* (state_error_count_, sync_time_, publishers[], receivers[],             *)
(* message_in[]) are zero-initialised before the constructor runs.         *)
(***************************************************************************)
EXTENDS Integers, Sequences, FiniteSets, TLC

(***************************************************************************)
(* Configuration constants of node_handle.h, scaled down.                  *)
(***************************************************************************)
kInputSize == 2
kMaxSubscribers == 2
kMaxPublishers == 2
kMaxBytesPerSpin == 3
kSyncPeriod == 1
kConnectionTimeout == 3

(***************************************************************************)
(* Reserved topic identifiers (rosserial_ids.h, rosserial_msgs/TopicInfo.h)*)
(***************************************************************************)
TOPIC_NEGOTIATION == 0
TOPIC_PUBLISHERS == 0
TOPIC_SUBSCRIBERS == 1
ID_PARAMETER_REQUEST == 6
ID_LOG == 7
ID_TIME == 10

(***************************************************************************)
(* Bounds of the exploration.                                              *)
(***************************************************************************)
MaxClock == 5
MaxSends == 2
MaxPort == 8
MaxGarbage == 3

NULL == "null"
(* the application's records, one more of each kind than there are slots *)
Publishers == [i \in 1..(kMaxPublishers + 1) |-> "p" \o ToString(i)]
Receivers == [i \in 1..(kMaxSubscribers + 1) |-> "s" \o ToString(i)]

TopicName(r) == "/" \o r
MessageType(r) == "std_msgs/" \o r

Min(a, b) == IF a < b THEN a ELSE b

RECURSIVE Sum(_)
Sum(s) == IF s = <<>> THEN 0 ELSE Head(s) + Sum(Tail(s))

(***************************************************************************)
(* The frame writer of the peer (spec 4.1): FF FF, topic and length        *)
(* little-endian, payload, checksum 255 - (sum mod 256).                   *)
(***************************************************************************)
FrameBody(topic, len, payload) ==
  <<topic % 256, topic \div 256, len % 256, len \div 256>> \o payload

Emit(topic, payload) ==
  LET body == FrameBody(topic, Len(payload), payload)
  IN  <<255, 255>> \o body \o <<255 - (Sum(body) % 256)>>

(***************************************************************************)
(* Message codecs (generated headers).  deserialize(buffer, length)        *)
(* returns a negative value on failure.  The stand-in codec rejects a      *)
(* buffer whose first readable byte is 255.                                *)
(***************************************************************************)
deserialize(buf, len) == IF len > 0 /\ buf[0] = 255 THEN 0 - 1 ELSE Min(len, 1)

(* std_msgs::Time::deserialize: the decoded timestamp of a buffer *)
TimeData(buf) == [sec |-> buf[0], nsec |-> (buf[0] % 2) * 999000000]

(* Time += Duration::fromMillis(ms), normalised (spec 4.6) *)
AddMillis(t, ms) ==
  LET ns == t.nsec + ms * 1000000
  IN  [sec |-> t.sec + ns \div 1000000000, nsec |-> ns % 1000000000]

TimeLeq(a, b) == a.sec < b.sec \/ (a.sec = b.sec /\ a.nsec <= b.nsec)

(***************************************************************************)
(* Events of one NodeHandle call, in program order.                        *)
(***************************************************************************)
Ev(k, topic, data, n, name, ty) ==
  [k |-> k, topic |-> topic, data |-> data, n |-> n, name |-> name, ty |-> ty]

EvWrite(i, b) == Ev("write", 0, <<b>>, i, "", "")
EvDispatch(topic, payload, len) == Ev("dispatch", topic, payload, len, "", "")
EvMismatch(topic) == Ev("mismatch", topic, <<>>, 0, "", "")
EvPublish(topic, id, name, ty) == Ev("publish", topic, <<>>, id, name, ty)
EvReceive(r, payload, len, ok) == Ev("receive", 0, payload, len, r, IF ok THEN "ok" ELSE "failed")
EvSync(ok) == Ev("sync", 0, <<>>, 0, "", IF ok THEN "ok" ELSE "failed")
EvReturn(fn, ok) == Ev("return", 0, <<>>, 0, fn, IF ok THEN "true" ELSE "false")
EvTimeout(state) == Ev("timeout", 0, <<>>, 0, state, "")
EvParam(ok) == Ev("param", 0, <<>>, 0, "", IF ok THEN "ok" ELSE "failed")

VARIABLES
  nh,        \* the NodeHandle object
  pub_id,    \* Publisher::id_ of the application's publisher records
  sub_id,    \* MsgReceiver::id_ of the application's receiver records
  port,      \* bytes the hardware port holds for read()
  wire,      \* bytes on the link that have not reached the port yet
  clock,     \* Hardware::time()
  log,       \* events of the last NodeHandle call
  ret,       \* return value of the last spinOnce call
  rp,        \* the activation record of requestParam
  sent,      \* number of pieces the peer has sent
  obs        \* observations: the stream under test, whether a time sync has
             \* completed, whether a time-sync request is in flight, the
             \* length the frame being received declares, whether a
             \* timeout has disconnected the client

vars == <<nh, pub_id, sub_id, port, wire, clock, log, ret, rp, sent, obs>>

(***************************************************************************)
(* NodeHandle::NodeHandle                                                  *)
(***************************************************************************)
NodeHandle ==
  [connected_ |-> FALSE,
   param_received_ |-> FALSE,
   time_sync_start_ |-> 0,
   time_sync_end_ |-> 0,
   sync_time_ |-> [sec |-> 0, nsec |-> 0],
   state_ |-> "FIRST_FF",
   remaining_data_bytes_ |-> 0,
   topic_ |-> 0,
   data_index_ |-> 0,
   checksum_ |-> 0,
   message_in |-> [i \in 0..(kInputSize - 1) |-> 0],
   invalid_size_error_count_ |-> 0,
   checksum_error_count_ |-> 0,
   state_error_count_ |-> 0,
   malformed_message_error_count_ |-> 0,
   total_receivers_ |-> 0,
   receivers |-> [i \in 0..(kMaxSubscribers - 1) |-> NULL],
   publishers |-> [i \in 0..(kMaxPublishers - 1) |-> NULL],
   req_param_resp |-> 0 - 1]

(***************************************************************************)
(* NodeHandle::reset                                                       *)
(***************************************************************************)
reset_keepsIndex(n) ==
  [n EXCEPT !.state_ = "FIRST_FF",
            !.remaining_data_bytes_ = 0,
            !.topic_ = 0,
            !.checksum_ = 0]

reset(n) ==
  [n EXCEPT !.state_ = "FIRST_FF",
            !.remaining_data_bytes_ = 0,
            !.topic_ = 0,
            !.data_index_ = 0,
            !.checksum_ = 0]

(***************************************************************************)
(* The machine a call runs on: the object, the events of the call and the  *)
(* observation of the stream under test.                                   *)
(***************************************************************************)
(* a time-sync request is in flight from its publication until the sync    *)
(* completes or the connection times out                                   *)
IsTimeRequest(e) == e.k = "publish" /\ e.topic = ID_TIME

EndsSync(e) == (e.k = "sync" /\ e.ty = "ok") \/ e.k = "timeout"

InFlight(was, e) ==
  IF IsTimeRequest(e) THEN TRUE
  ELSE IF EndsSync(e) THEN FALSE
  ELSE was

(* the client is disconnected by a timeout until a negotiation frame or a  *)
(* time frame is dispatched                                                *)
Disconnected(was, e) ==
  IF e.k = "timeout" THEN TRUE
  ELSE IF e.k = "dispatch" /\ e.topic \in {TOPIC_NEGOTIATION, ID_TIME} THEN FALSE
  ELSE was

Emitting(m, e) ==
  [m EXCEPT !.log = Append(@, e),
            !.obs.inflight = InFlight(@, e),
            !.obs.disconnected = Disconnected(@, e)]

(***************************************************************************)
(* NodeHandle::requestTimeSync                                             *)
(***************************************************************************)
requestTimeSync_silent(m, t) ==
  IF m.nh.time_sync_start_ > 0
    THEN m
    ELSE [m EXCEPT !.nh.time_sync_start_ = t]

requestTimeSync(m, t) ==
  IF m.nh.time_sync_start_ > 0
    THEN m
    ELSE Emitting([m EXCEPT !.nh.time_sync_start_ = t],
                  EvPublish(ID_TIME, 0, "", "std_msgs/Time"))

(***************************************************************************)
(* NodeHandle::completeTimeSync.  The clock is monotonic and below its     *)
(* wrap, so the unsigned subtraction does not underflow.                   *)
(***************************************************************************)
completeTimeSync(m, t) ==
  LET m1 == [m EXCEPT !.nh.time_sync_end_ = t]
      offset == (t - m.nh.time_sync_start_) \div 2
  IN  IF deserialize(m.nh.message_in, kInputSize) < 0
        THEN Emitting(m1, EvSync(FALSE))
        ELSE Emitting(
               Emitting([m1 EXCEPT !.nh.sync_time_ =
                                      AddMillis(TimeData(m.nh.message_in), offset),
                                   !.nh.time_sync_start_ = 0],
                        EvSync(TRUE)),
               EvPublish(ID_LOG, 0, "Time", "rosserial_msgs/Log"))

(***************************************************************************)
(* NodeHandle::now                                                         *)
(***************************************************************************)
now(n, t) == AddMillis(n.sync_time_, t - n.time_sync_end_)

(***************************************************************************)
(* NodeHandle::negotiateTopics                                             *)
(***************************************************************************)
RECURSIVE publishPublishers(_, _, _)
publishPublishers(m, i, pid) ==
  IF i < kMaxPublishers /\ m.nh.publishers[i] # NULL
    THEN LET p == m.nh.publishers[i]
         IN  publishPublishers(
               Emitting(m, EvPublish(TOPIC_PUBLISHERS, pid[p], TopicName(p), MessageType(p))),
               i + 1, pid)
    ELSE m

RECURSIVE publishReceivers(_, _, _)
publishReceivers(m, i, sid) ==
  IF i < kMaxSubscribers /\ m.nh.receivers[i] # NULL
    THEN LET r == m.nh.receivers[i]
         IN  publishReceivers(
               Emitting(m, EvPublish(TOPIC_SUBSCRIBERS, sid[r], TopicName(r), MessageType(r))),
               i + 1, sid)
    ELSE m

negotiateTopics_receiversFirst(m, pid, sid) ==
  publishPublishers(publishReceivers(m, 0, sid), 0, pid)

negotiateTopics(m, pid, sid) ==
  publishReceivers(publishPublishers(m, 0, pid), 0, sid)

(***************************************************************************)
(* spinOnce, case STATE_CHECKSUM: the dispatcher                           *)
(***************************************************************************)
checksumValid(n) == (n.checksum_ % 256) = 255

Payload(n) == [i \in 1..n.data_index_ |-> n.message_in[i - 1]]

receiverAt_firstSlot(n, topic) ==
  IF topic >= 100 /\ topic - 100 < kMaxSubscribers
    THEN n.receivers[0]
    ELSE NULL

receiverAt(n, topic) ==
  IF topic >= 100 /\ topic - 100 < kMaxSubscribers
    THEN n.receivers[topic - 100]
    ELSE NULL

dispatch(m, t, pid, sid) ==
  LET n == m.nh
      md == Emitting(m, EvDispatch(n.topic_, Payload(n), n.data_index_))
  IN  IF n.topic_ = TOPIC_NEGOTIATION
        THEN negotiateTopics(requestTimeSync(md, t), pid, sid)
      ELSE IF n.topic_ = ID_TIME
        THEN [completeTimeSync(md, t) EXCEPT !.nh.connected_ = TRUE]
      ELSE IF n.topic_ = ID_PARAMETER_REQUEST
        THEN IF deserialize(n.message_in, kInputSize) >= 0
               THEN Emitting([md EXCEPT !.nh.param_received_ = TRUE,
                                        !.nh.req_param_resp = n.message_in[0]],
                             EvParam(TRUE))
               ELSE Emitting(md, EvParam(FALSE))
      ELSE IF receiverAt(n, n.topic_) # NULL
        THEN LET success == deserialize(n.message_in, n.data_index_) >= 0
                 mr == Emitting(md, EvReceive(receiverAt(n, n.topic_),
                                              Payload(n), n.data_index_, success))
             IN  IF ~success
                   THEN [mr EXCEPT !.nh.malformed_message_error_count_ = @ + 1]
                   ELSE mr
      ELSE [md EXCEPT !.nh.checksum_error_count_ = @ + 1]

caseChecksum(m, t, pid, sid) ==
  LET md == IF checksumValid(m.nh)
              THEN dispatch(m, t, pid, sid)
              ELSE Emitting(m, EvMismatch(m.nh.topic_))
  IN  [md EXCEPT !.nh = reset(@)]

(***************************************************************************)
(* spinOnce, the other cases of the switch                                 *)
(***************************************************************************)
caseStartByte_noReset(n, b, next) ==
  IF b = 255
    THEN [n EXCEPT !.state_ = next]
    ELSE [n EXCEPT !.state_error_count_ = @ + 1]

caseStartByte(n, b, next) ==
  IF b = 255
    THEN [n EXCEPT !.state_ = next]
    ELSE reset([n EXCEPT !.state_error_count_ = @ + 1])

caseTopicLow_keepsSum(n, b) ==
  [n EXCEPT !.topic_ = b, !.state_ = "TOPIC_HIGH"]

caseTopicLow(n, b) ==
  [n EXCEPT !.checksum_ = b, !.topic_ = b, !.state_ = "TOPIC_HIGH"]

caseTopicHigh(n, b) ==
  [n EXCEPT !.topic_ = @ + b * 256, !.state_ = "SIZE_LOW"]

caseSizeLow(n, b) ==
  [n EXCEPT !.remaining_data_bytes_ = b, !.state_ = "SIZE_HIGH"]

sizeFits_any(remaining) == TRUE

sizeFits(remaining) == remaining <= kInputSize

caseSizeHigh_lowByteOnly(n, b) ==
  LET n1 == [n EXCEPT !.remaining_data_bytes_ = @ % 65536]
  IN  IF n1.remaining_data_bytes_ = 0
        THEN [n1 EXCEPT !.state_ = "CHECKSUM"]
      ELSE IF sizeFits(n1.remaining_data_bytes_)
        THEN [n1 EXCEPT !.state_ = "MESSAGE"]
      ELSE [reset(n1) EXCEPT !.invalid_size_error_count_ = @ + 1]

caseSizeHigh(n, b) ==
  LET remaining == (n.remaining_data_bytes_ + b * 256) % 65536
      n1 == [n EXCEPT !.remaining_data_bytes_ = remaining]
  IN  IF remaining = 0
        THEN [n1 EXCEPT !.state_ = "CHECKSUM"]
      ELSE IF sizeFits(remaining)
        THEN [n1 EXCEPT !.state_ = "MESSAGE"]
      ELSE [reset(n1) EXCEPT !.invalid_size_error_count_ = @ + 1]

(* message_in[data_index_++] = input_byte: a write past the array is      *)
(* recorded in the event and leaves the array as it is.                    *)
caseMessage(m, b) ==
  LET n == m.nh
      i == n.data_index_
      n1 == [n EXCEPT !.message_in = IF i \in DOMAIN @ THEN [@ EXCEPT ![i] = b] ELSE @,
                      !.data_index_ = i + 1,
                      !.remaining_data_bytes_ = (@ - 1) % 65536]
  IN  Emitting([m EXCEPT !.nh = IF n1.remaining_data_bytes_ = 0
                                  THEN [n1 EXCEPT !.state_ = "CHECKSUM"]
                                  ELSE n1],
               EvWrite(i, b))

(***************************************************************************)
(* spinOnce, the body of the read loop for one byte                        *)
(***************************************************************************)
IsDispatch(e) == e.k = "dispatch"

IsSync(e) == e.k = "sync" /\ e.ty = "ok"

(* what the stream under test has caused so far: the dispatches of the    *)
(* bytes of S, those of the bytes of T, and the state S left behind;      *)
(* whether a time sync has completed                                      *)
observe(before, after) ==
  LET new == SubSeq(after.log, Len(before.log) + 1, Len(after.log))
      newDisp == SelectSeq(new, IsDispatch)
      f == before.obs
      a == [after EXCEPT !.obs.synced = @ \/ SelectSeq(new, IsSync) # <<>>]
  IN  IF ~f.active THEN a
      ELSE IF f.sLeft > 0
        THEN [a EXCEPT !.obs.sLeft = @ - 1,
                       !.obs.dispS = @ \o newDisp,
                       !.obs.stateAfterS = IF f.sLeft = 1 THEN after.nh.state_ ELSE @]
      ELSE [a EXCEPT !.obs.dispT = @ \o newDisp]

(* the length the size bytes of the frame being received declare *)
declaredLength(was, s, b, next) ==
  IF next = "FIRST_FF" THEN 0
  ELSE IF s = "SIZE_LOW" THEN b
  ELSE IF s = "SIZE_HIGH" THEN was + b * 256
  ELSE was

declare(before, b, after) ==
  [after EXCEPT !.obs.declared =
                   declaredLength(@, before.nh.state_, b, after.nh.state_)]

ingest(m, b, t, pid, sid) ==
  LET mc == [m EXCEPT !.nh.checksum_ = @ + b]
      n == mc.nh
      s == n.state_
  IN  declare(m, b, observe(m,
        IF s = "FIRST_FF" THEN [mc EXCEPT !.nh = caseStartByte(n, b, "SECOND_FF")]
        ELSE IF s = "SECOND_FF" THEN [mc EXCEPT !.nh = caseStartByte(n, b, "TOPIC_LOW")]
        ELSE IF s = "TOPIC_LOW" THEN [mc EXCEPT !.nh = caseTopicLow(n, b)]
        ELSE IF s = "TOPIC_HIGH" THEN [mc EXCEPT !.nh = caseTopicHigh(n, b)]
        ELSE IF s = "SIZE_LOW" THEN [mc EXCEPT !.nh = caseSizeLow(n, b)]
        ELSE IF s = "SIZE_HIGH" THEN [mc EXCEPT !.nh = caseSizeHigh(n, b)]
        ELSE IF s = "MESSAGE" THEN caseMessage(mc, b)
        ELSE IF s = "CHECKSUM" THEN caseChecksum(mc, t, pid, sid)
        ELSE [mc EXCEPT !.nh = reset(n)]))

(***************************************************************************)
(* spinOnce, the connection check and the read loop                        *)
(***************************************************************************)
connectionTimeout_keepsFrame(n) ==
  [n EXCEPT !.connected_ = FALSE, !.time_sync_start_ = 0]

connectionTimeout(n) ==
  reset([n EXCEPT !.connected_ = FALSE, !.time_sync_start_ = 0])

checkConnection(m, t) ==
  IF m.nh.connected_
    THEN LET m1 == IF t - m.nh.time_sync_end_ > kConnectionTimeout
                     THEN Emitting([m EXCEPT !.nh = connectionTimeout(@)],
                                   EvTimeout(m.nh.state_))
                     ELSE m
         IN  IF t - m1.nh.time_sync_end_ > kSyncPeriod
               THEN requestTimeSync(m1, t)
               ELSE m1
    ELSE m

moreToRead_inclusive(byte_count) == byte_count <= kMaxBytesPerSpin

moreToRead(byte_count) == byte_count < kMaxBytesPerSpin

RECURSIVE readLoop(_, _, _, _, _, _)
readLoop(m, p, byte_count, t, pid, sid) ==
  IF moreToRead(byte_count) /\ p # <<>>
    THEN \* the byte is consumed before the next one is read
         CHOOSE r \in {readLoop(x, Tail(p), byte_count + 1, t, pid, sid) :
                        x \in {ingest(m, Head(p), t, pid, sid)}} : TRUE
    ELSE [m |-> m, port |-> p, ret |-> byte_count]

spinOnce(m, p, t, pid, sid) ==
  readLoop(checkConnection(m, t), p, 0, t, pid, sid)

(***************************************************************************)
(* The state after construction (time_test.cpp:19-23): an empty port, the  *)
(* clock at 0, no record bound.                                            *)
(***************************************************************************)
PublisherSet == {Publishers[i] : i \in DOMAIN Publishers}
ReceiverSet == {Receivers[i] : i \in DOMAIN Receivers}

NoStream ==
  [active |-> FALSE, sLen |-> 0, topic |-> 0, payload |-> <<>>, sLeft |-> 0,
   stateAfterS |-> "FIRST_FF", dispS |-> <<>>, dispT |-> <<>>, synced |-> FALSE,
   inflight |-> FALSE, declared |-> 0, disconnected |-> FALSE]

Idle == [pc |-> "idle", start_time |-> 0, time_out |-> 0, result |-> "none", got |-> FALSE]

Constructed ==
  /\ nh = NodeHandle
  /\ pub_id = [p \in PublisherSet |-> 0]
  /\ sub_id = [r \in ReceiverSet |-> 0]
  /\ port = <<>>
  /\ clock = 0
  /\ log = <<>>
  /\ ret = 0
  /\ rp = Idle
  /\ sent = 0

Init ==
  /\ Constructed
  /\ wire = <<>>
  /\ obs = NoStream

(***************************************************************************)
(* The application calls spinOnce (time_test.cpp:33).                      *)
(***************************************************************************)
SpinOnce ==
  /\ rp.pc = "idle"
  /\ \E r \in {spinOnce([nh |-> nh, log |-> <<>>, obs |-> obs], port, clock, pub_id, sub_id)} :
       /\ nh' = r.m.nh
       /\ log' = r.m.log
       /\ obs' = r.m.obs
       /\ port' = r.port
       /\ ret' = r.ret
  /\ UNCHANGED <<pub_id, sub_id, wire, clock, rp, sent>>

(***************************************************************************)
(* The framing specification: a stream S of stray bytes followed by one    *)
(* frame is on the link; the link hands it to the port in arbitrary        *)
(* pieces, down to one byte at a time, between the calls of spinOnce.      *)
(***************************************************************************)
StrayBytes == {0, 1, 255}
FrameTopics == {0, 6, 10, 100, 255, 256, 65280, 65535}
PayloadBytes == {0, 1, 255}

SeqsUpTo(S, n) == UNION {[1..k -> S] : k \in 0..n}

(* a frame whose checksum byte is off by one *)
Corrupt(frame) == [frame EXCEPT ![Len(frame)] = (@ + 1) % 256]

(* the start of a frame that declares len payload bytes *)
Header(topic, len) == <<255, 255>> \o FrameBody(topic, len, <<>>)

(* streams without a checksum-valid frame: stray bytes, a header that     *)
(* declares too long a payload, a frame with a wrong checksum             *)
Garbage ==
  SeqsUpTo(StrayBytes, MaxGarbage)
    \cup {Header(100, kInputSize + 1), Header(100, 256), Corrupt(Emit(100, <<1>>))}

InitFrame ==
  /\ Constructed
  /\ \E S \in Garbage, topic \in FrameTopics,
        payload \in SeqsUpTo(PayloadBytes, kInputSize) :
       /\ wire = S \o Emit(topic, payload)
       /\ obs = [active |-> TRUE, sLen |-> Len(S), topic |-> topic, payload |-> payload,
                sLeft |-> Len(S),
                stateAfterS |-> IF Len(S) = 0 THEN "FIRST_FF" ELSE "pending",
                dispS |-> <<>>, dispT |-> <<>>, synced |-> FALSE,
                inflight |-> FALSE, declared |-> 0, disconnected |-> FALSE]

Deliver ==
  /\ \E k \in 1..Len(wire) :
       /\ Len(port) + k <= MaxPort
       /\ port' = port \o SubSeq(wire, 1, k)
       /\ wire' = SubSeq(wire, k + 1, Len(wire))
  /\ UNCHANGED <<nh, pub_id, sub_id, clock, log, ret, rp, sent, obs>>

NextFrame == Deliver \/ SpinOnce

SpecFrame == InitFrame /\ [][NextFrame]_vars

StreamDone == obs.active /\ wire = <<>> /\ port = <<>>

FrameSent == EvDispatch(obs.topic, obs.payload, Len(obs.payload))

(***************************************************************************)
(* The hardware: the millisecond clock advances, the peer's bytes arrive   *)
(* in the port.  The peer sends frames, frames with a wrong checksum,      *)
(* frames cut short, headers that declare too long a payload, stray bytes. *)
(***************************************************************************)
Tick ==
  /\ clock < MaxClock
  /\ clock' = clock + 1
  /\ UNCHANGED <<nh, pub_id, sub_id, port, wire, log, ret, rp, sent, obs>>

HostSend(bytes) ==
  /\ sent < MaxSends
  /\ port' = port \o bytes
  /\ sent' = sent + 1
  /\ UNCHANGED <<nh, pub_id, sub_id, wire, clock, log, ret, rp, obs>>

FullPayload == [i \in 1..kInputSize |-> 2]
HostTopics == {ID_TIME, 100}
HostPayloads == {<<>>, FullPayload}
OversizeLengths == {kInputSize + 1, 256}
(* cut after the first start byte, inside the topic, inside the payload,  *)
(* before the checksum                                                     *)
Cuts == {1, 3, 7, 6 + kInputSize}

HostSendFrame ==
  \E topic \in HostTopics, payload \in HostPayloads : HostSend(Emit(topic, payload))

HostSendCorrupt ==
  \E payload \in HostPayloads : HostSend(Corrupt(Emit(100, payload)))

HostSendTruncated ==
  \E k \in Cuts : HostSend(SubSeq(Emit(100, FullPayload), 1, k))

HostSendOversize ==
  \E len \in OversizeLengths : HostSend(Header(100, len))

HostSendByte == HostSend(<<0>>)

(***************************************************************************)
(* The application calls reset, registerReceiver, advertise.  It passes    *)
(* its records in order: a record that is bound already, or the next one.  *)
(***************************************************************************)
Reset ==
  /\ rp.pc = "idle"
  /\ nh' = reset(nh)
  /\ log' = <<>>
  /\ UNCHANGED <<pub_id, sub_id, port, wire, clock, ret, rp, sent, obs>>

Bound(table) == {i \in DOMAIN table : table[i] # NULL}

receiverId(slot) == 100 + slot

registerReceiver_noLimit(n, sid, receiver) ==
  [nh |-> [n EXCEPT !.receivers[n.total_receivers_] = receiver,
                    !.total_receivers_ = @ + 1],
   sid |-> [sid EXCEPT ![receiver] = receiverId(n.total_receivers_)],
   ok |-> TRUE]

registerReceiver(n, sid, receiver) ==
  IF n.total_receivers_ >= kMaxSubscribers
    THEN [nh |-> n, sid |-> sid, ok |-> FALSE]
    ELSE [nh |-> [n EXCEPT !.receivers[n.total_receivers_] = receiver,
                           !.total_receivers_ = @ + 1],
          sid |-> [sid EXCEPT ![receiver] = receiverId(n.total_receivers_)],
          ok |-> TRUE]

RegisterReceiver ==
  /\ rp.pc = "idle"
  /\ \E k \in 1..(Cardinality(Bound(nh.receivers)) + 1) :
       LET r == registerReceiver(nh, sub_id, Receivers[k])
       IN  /\ nh' = r.nh
           /\ sub_id' = r.sid
           /\ log' = <<EvReturn("registerReceiver", r.ok)>>
  /\ UNCHANGED <<pub_id, port, wire, clock, ret, rp, sent, obs>>

publisherId_fromHundred(slot) == slot + 100

publisherId(slot) == slot + 100 + kMaxSubscribers

RECURSIVE advertiseFrom(_, _, _, _)
advertiseFrom(i, n, pid, publisher) ==
  IF i < kMaxPublishers
    THEN IF n.publishers[i] = NULL
           THEN [nh |-> [n EXCEPT !.publishers[i] = publisher],
                 pid |-> [pid EXCEPT ![publisher] = publisherId(i)],
                 ok |-> TRUE]
           ELSE advertiseFrom(i + 1, n, pid, publisher)
    ELSE [nh |-> n, pid |-> pid, ok |-> FALSE]

advertise(n, pid, publisher) == advertiseFrom(0, n, pid, publisher)

Advertise ==
  /\ rp.pc = "idle"
  /\ \E k \in 1..(Cardinality(Bound(nh.publishers)) + 1) :
       LET r == advertise(nh, pub_id, Publishers[k])
       IN  /\ nh' = r.nh
           /\ pub_id' = r.pid
           /\ log' = <<EvReturn("advertise", r.ok)>>
  /\ UNCHANGED <<sub_id, port, wire, clock, ret, rp, sent, obs>>

(***************************************************************************)
(* NodeHandle::requestParam.  The call blocks: between two rounds of its   *)
(* loop the clock advances and bytes arrive.  One step is the part before  *)
(* the loop, one step is one round: spinOnce, then the timeout test, then  *)
(* the loop condition.                                                     *)
(***************************************************************************)
Timeouts == {0, 1, 2}

ParamResponse(e) == e.k = "param" /\ e.ty = "ok"

RequestParamBegin ==
  /\ rp.pc = "idle"
  /\ \E time_out \in Timeouts :
       rp' = [pc |-> "loop", start_time |-> clock, time_out |-> time_out,
              result |-> "none", got |-> FALSE]
  /\ nh' = [nh EXCEPT !.param_received_ = FALSE]
  /\ log' = <<EvPublish(ID_PARAMETER_REQUEST, 0, "", "rosserial_msgs/RequestParam")>>
  /\ UNCHANGED <<pub_id, sub_id, port, wire, clock, ret, sent, obs>>

requestParamRound_noTimeout(r, n, t) ==
  IF n.param_received_
    THEN [r EXCEPT !.pc = "idle", !.result = "true"]
    ELSE r

requestParamRound(r, n, t) ==
  IF t - r.start_time > r.time_out
    THEN [r EXCEPT !.pc = "idle", !.result = "false"]
  ELSE IF n.param_received_
    THEN [r EXCEPT !.pc = "idle", !.result = "true"]
  ELSE r

RequestParamSpin ==
  /\ rp.pc = "loop"
  /\ \E r \in {spinOnce([nh |-> nh, log |-> <<>>, obs |-> obs], port, clock, pub_id, sub_id)} :
       LET got == rp.got \/ SelectSeq(r.m.log, ParamResponse) # <<>>
       IN  /\ nh' = r.m.nh
           /\ log' = r.m.log
           /\ obs' = r.m.obs
           /\ port' = r.port
           /\ ret' = r.ret
           /\ rp' = requestParamRound([rp EXCEPT !.got = got], r.m.nh, clock)
  /\ UNCHANGED <<pub_id, sub_id, wire, clock, sent>>

Next ==
  \/ Tick
  \/ HostSendFrame
  \/ HostSendCorrupt
  \/ HostSendTruncated
  \/ HostSendOversize
  \/ HostSendByte
  \/ SpinOnce
  \/ Reset

Spec == Init /\ [][Next]_vars

(***************************************************************************)
(* The time specification: the peer answers with time frames, some of      *)
(* which do not decode, and with frames cut short; the clock advances.     *)
(***************************************************************************)
TimePayloads == {<<>>, <<1>>, <<4>>, <<255>>}

HostSendTime ==
  \E payload \in TimePayloads : HostSend(Emit(ID_TIME, payload))

NextTime ==
  \/ Tick
  \/ HostSendTime
  \/ HostSendTruncated
  \/ SpinOnce

SpecTime == Init /\ [][NextTime]_vars

HostSendNegotiation == HostSend(Emit(TOPIC_NEGOTIATION, <<>>))

(***************************************************************************)
(* The synchronisation specification: the peer asks for the catalogue and  *)
(* answers with time frames; the clock advances.                           *)
(***************************************************************************)
NextSync ==
  \/ Tick
  \/ HostSendNegotiation
  \/ HostSendTime
  \/ SpinOnce

SpecSync == Init /\ [][NextSync]_vars

(***************************************************************************)
(* The registry specification: the application binds records, the peer     *)
(* asks for the topic catalogue.                                           *)
(***************************************************************************)
NextRegistry ==
  \/ Tick
  \/ Advertise
  \/ RegisterReceiver
  \/ HostSendNegotiation
  \/ SpinOnce

SpecRegistry == Init /\ [][NextRegistry]_vars

(***************************************************************************)
(* The table specification: the application binds records and resets the   *)
(* receiver, the peer sends a stray byte followed by a time frame, the     *)
(* clock advances until the connection times out.                          *)
(***************************************************************************)
HostSendStrayTime == HostSend(<<0>> \o Emit(ID_TIME, <<>>))

NextTables ==
  \/ Tick
  \/ Advertise
  \/ RegisterReceiver
  \/ Reset
  \/ HostSendStrayTime
  \/ SpinOnce

SpecTables == Init /\ [][NextTables]_vars

(***************************************************************************)
(* The dispatch specification: the application binds records, the peer     *)
(* sends frames on subscriber topics, on a topic of the publisher range    *)
(* and on topics nobody handles, with payloads the callback accepts or     *)
(* rejects.                                                                *)
(***************************************************************************)
DispatchTopics == {100, 101, 100 + kMaxSubscribers, 100 + 256}
DispatchPayloads == {<<1>>, <<255>>}

HostSendTopic ==
  \E topic \in DispatchTopics, payload \in DispatchPayloads :
    HostSend(Emit(topic, payload))

NextDispatch ==
  \/ Advertise
  \/ RegisterReceiver
  \/ HostSendTopic
  \/ SpinOnce

SpecDispatch == Init /\ [][NextDispatch]_vars

(***************************************************************************)
(* The parameter specification: the application requests a parameter, the  *)
(* peer answers with responses, some of which do not decode.               *)
(***************************************************************************)
ParamPayloads == {<<1>>, <<255>>}

HostSendParam ==
  \E payload \in ParamPayloads : HostSend(Emit(ID_PARAMETER_REQUEST, payload))

NextParam ==
  \/ Tick
  \/ HostSendParam
  \/ SpinOnce
  \/ RequestParamBegin
  \/ RequestParamSpin

SpecParam == Init /\ [][NextParam]_vars

(* requestParam blocks the application: its loop keeps running; the        *)
(* hardware clock keeps advancing, as long as the exploration lets it.     *)
(* Whether the peer ever sends a response is left open.                    *)
SpecParamFair ==
  SpecParam /\ WF_vars(Tick) /\ WF_vars(RequestParamSpin)

(***************************************************************************)
(* C1  Round trip: a frame FF FF topic_lo topic_hi len_lo len_hi payload   *)
(* checksum fed from FIRST_FF, in pieces down to one byte per spinOnce,    *)
(* causes exactly one dispatch, of that topic, payload and length, and     *)
(* leaves the receiver in FIRST_FF.                                        *)
(***************************************************************************)
RoundTrip ==
  /\ (obs.active /\ obs.sLen = 0) => Len(obs.dispT) <= 1
  /\ (StreamDone /\ obs.sLen = 0) =>
        /\ obs.dispT = <<FrameSent>>
        /\ nh.state_ = "FIRST_FF"

RoundTripWitness ==
  /\ StreamDone
  /\ obs.sLen = 0
  /\ obs.topic = 65535
  /\ Len(obs.payload) = kInputSize
  /\ obs.payload[1] = 255
  /\ obs.dispT = <<FrameSent>>
  /\ ret = 1

(***************************************************************************)
(* C3  Resync, as claimed: after any stream S, the frame at the start of T *)
(* is dispatched and the bytes of S have caused no dispatch.               *)
(***************************************************************************)
ResyncAfterAnyStream ==
  StreamDone =>
    /\ obs.dispS = <<>>
    /\ \E i \in DOMAIN obs.dispT : obs.dispT[i] = FrameSent

(***************************************************************************)
(* C3  Resync, amended: when S holds no checksum-valid frame and leaves    *)
(* the receiver in FIRST_FF, the frame at the start of T is the one        *)
(* dispatch of the stream; as long as nothing was dispatched, only the     *)
(* receive state, the receive buffer and the error counters have changed.  *)
(***************************************************************************)
ReceiveSide(n) ==
  [n EXCEPT !.state_ = "FIRST_FF", !.remaining_data_bytes_ = 0, !.topic_ = 0,
            !.data_index_ = 0, !.checksum_ = 0,
            !.message_in = NodeHandle.message_in,
            !.invalid_size_error_count_ = 0, !.checksum_error_count_ = 0,
            !.state_error_count_ = 0, !.malformed_message_error_count_ = 0]

ResyncFromFirstFF ==
  /\ obs.active => obs.dispS = <<>>
  /\ (obs.active /\ obs.dispT = <<>>) => ReceiveSide(nh) = NodeHandle
  /\ (StreamDone /\ obs.stateAfterS = "FIRST_FF") =>
        /\ obs.dispT = <<FrameSent>>
        /\ nh.state_ = "FIRST_FF"

ResyncWitness ==
  /\ StreamDone
  /\ obs.sLen > 3
  /\ obs.stateAfterS = "FIRST_FF"
  /\ nh.invalid_size_error_count_ + nh.state_error_count_ > 0
  /\ Len(obs.payload) = kInputSize
  /\ obs.dispT = <<FrameSent>>

ResyncWitnessCorrupt ==
  /\ StreamDone
  /\ obs.sLen = 8
  /\ obs.stateAfterS = "FIRST_FF"
  /\ obs.dispT = <<FrameSent>>

(***************************************************************************)
(* C2  No overflow: every write message_in[data_index_] of a call has      *)
(* 0 <= data_index_ < kInputSize, whatever bytes arrive and however        *)
(* spinOnce, connection timeouts and resets interleave.                    *)
(***************************************************************************)
IsWrite(e) == e.k = "write"

NoOverflow ==
  /\ \A i \in DOMAIN log : IsWrite(log[i]) => (0 <= log[i].n /\ log[i].n < kInputSize)
  /\ nh.state_ = "MESSAGE" => (0 <= nh.data_index_ /\ nh.data_index_ < kInputSize)

NoOverflowWitness ==
  /\ \E i \in DOMAIN log : IsWrite(log[i]) /\ log[i].n = kInputSize - 1
  /\ nh.invalid_size_error_count_ > 0

(***************************************************************************)
(* C4  Checksum mismatch: a byte consumed in state CHECKSUM that makes the *)
(* running sum differ from 255 mod 256 increases the checksum-error        *)
(* counter by exactly 1, runs no callback and no dispatch, and resets the  *)
(* receiver to FIRST_FF.                                                   *)
(***************************************************************************)
TimeoutDue == nh.connected_ /\ clock - nh.time_sync_end_ > kConnectionTimeout

MismatchCall ==
  /\ SpinOnce
  /\ ~TimeoutDue
  /\ nh.state_ = "CHECKSUM"
  /\ Len(port) = 1
  /\ (nh.checksum_ + port[1]) % 256 # 255

ChecksumMismatchCounted ==
  [][MismatchCall =>
       /\ nh'.checksum_error_count_ = nh.checksum_error_count_ + 1
       /\ nh'.state_ = "FIRST_FF"
       /\ \A i \in DOMAIN log' : log'[i].k \notin {"dispatch", "receive"}]_vars

(***************************************************************************)
(* C5  Bounded work per spin: a call of spinOnce consumes the first        *)
(* min(kMaxBytesPerSpin, bytes available) bytes of the port, returns that  *)
(* number, and leaves the rest in the port in order.                       *)
(***************************************************************************)
BoundedWork ==
  [][SpinOnce =>
       /\ ret' = Min(Len(port), kMaxBytesPerSpin)
       /\ port' = SubSeq(port, ret' + 1, Len(port))]_vars

BoundedWorkWitness ==
  /\ ret = kMaxBytesPerSpin
  /\ port # <<>>
  /\ nh.state_ = "TOPIC_HIGH"

(***************************************************************************)
(* C6  Time monotonicity: once a time sync has completed, a step that is   *)
(* not itself a successful sync and does not turn the clock back never     *)
(* decreases now().                                                        *)
(***************************************************************************)
SyncCall == SpinOnce /\ \E i \in DOMAIN log' : IsSync(log'[i])

TimeMonotonic ==
  [][(obs.synced /\ clock' >= clock /\ ~SyncCall) =>
       TimeLeq(now(nh, clock), now(nh', clock'))]_vars

(***************************************************************************)
(* C7  Connection timeout: a spinOnce called while connected, with         *)
(* current - time_sync_end > kConnectionTimeout and an empty port, returns *)
(* with connected() false and the receiver reset to FIRST_FF with          *)
(* remaining_data_bytes, topic, data_index and checksum zero.              *)
(***************************************************************************)
ConnectionTimeout ==
  [][(SpinOnce /\ TimeoutDue /\ port = <<>>) =>
       /\ ~nh'.connected_
       /\ nh'.state_ = "FIRST_FF"
       /\ nh'.remaining_data_bytes_ = 0
       /\ nh'.topic_ = 0
       /\ nh'.data_index_ = 0
       /\ nh'.checksum_ = 0]_vars

ConnectionTimeoutWitness ==
  /\ log # <<>>
  /\ log[1] = EvTimeout("MESSAGE")
  /\ ret = 0
  /\ ~nh.connected_
  /\ nh.state_ = "FIRST_FF"

(***************************************************************************)
(* C8  Topic negotiation: the dispatch of a valid frame on topic 0 is      *)
(* followed by the time-sync request (published unless one is in flight),  *)
(* then one topic-info record on TOPIC_PUBLISHERS per occupied publisher   *)
(* slot in slot order, then one on TOPIC_SUBSCRIBERS per occupied          *)
(* subscriber slot in slot order, each with the id, name and type of the   *)
(* record in the slot, and by nothing else.                                *)
(***************************************************************************)
RECURSIVE InSlotOrder(_, _)
InSlotOrder(table, i) ==
  IF i \notin DOMAIN table THEN <<>>
  ELSE IF table[i] = NULL THEN InSlotOrder(table, i + 1)
  ELSE <<table[i]>> \o InSlotOrder(table, i + 1)

Catalogue ==
  LET ps == InSlotOrder(nh.publishers, 0)
      rs == InSlotOrder(nh.receivers, 0)
  IN  [j \in 1..Len(ps) |->
         EvPublish(TOPIC_PUBLISHERS, pub_id[ps[j]], TopicName(ps[j]), MessageType(ps[j]))]
      \o
      [j \in 1..Len(rs) |->
         EvPublish(TOPIC_SUBSCRIBERS, sub_id[rs[j]], TopicName(rs[j]), MessageType(rs[j]))]

TimeRequest == EvPublish(ID_TIME, 0, "", "std_msgs/Time")

NegotiationAt(i) ==
  /\ i \in DOMAIN log
  /\ IsDispatch(log[i])
  /\ log[i].topic = TOPIC_NEGOTIATION

TopicNegotiation ==
  \A i \in DOMAIN log :
    NegotiationAt(i) =>
      LET after == SubSeq(log, i + 1, Len(log))
      IN  \/ after = <<TimeRequest>> \o Catalogue
          \/ /\ after = Catalogue
             /\ nh.time_sync_start_ > 0

TopicNegotiationWitness ==
  /\ \E i \in DOMAIN log :
       /\ NegotiationAt(i)
       /\ SubSeq(log, i + 1, Len(log)) = <<TimeRequest>> \o Catalogue
  /\ Len(Catalogue) = kMaxPublishers + kMaxSubscribers
  /\ nh.publishers[0] # nh.publishers[1]

(***************************************************************************)
(* C9  Identifier ranges: when the bound records are distinct, the         *)
(* receiver in slot i has id 100 + i, the publisher in slot i has id       *)
(* 100 + kMaxSubscribers + i, both inside their ranges, and no two bound   *)
(* records share an id.                                                    *)
(***************************************************************************)
DistinctRecords(table) ==
  \A i, j \in Bound(table) : i # j => table[i] # table[j]

BoundIds ==
  {pub_id[nh.publishers[i]] : i \in Bound(nh.publishers)}
    \cup {sub_id[nh.receivers[i]] : i \in Bound(nh.receivers)}

IdentifierRanges ==
  (DistinctRecords(nh.publishers) /\ DistinctRecords(nh.receivers)) =>
    /\ \A i \in Bound(nh.receivers) :
         /\ sub_id[nh.receivers[i]] = 100 + i
         /\ sub_id[nh.receivers[i]] \in 100..(100 + kMaxSubscribers - 1)
    /\ \A i \in Bound(nh.publishers) :
         /\ pub_id[nh.publishers[i]] = 100 + kMaxSubscribers + i
         /\ pub_id[nh.publishers[i]] \in
              (100 + kMaxSubscribers)..(100 + kMaxSubscribers + kMaxPublishers - 1)
    /\ Cardinality(BoundIds) =
         Cardinality(Bound(nh.publishers)) + Cardinality(Bound(nh.receivers))

IdentifierRangesWitness ==
  /\ DistinctRecords(nh.publishers)
  /\ DistinctRecords(nh.receivers)
  /\ Cardinality(Bound(nh.publishers)) = kMaxPublishers
  /\ Cardinality(Bound(nh.receivers)) = kMaxSubscribers
  /\ log = <<EvReturn("advertise", FALSE)>>

(***************************************************************************)
(* C10  requestParam result: requestParam returns true exactly when a      *)
(* parameter response (a checksum-valid frame on topic 6 that decodes) was *)
(* dispatched during the call, also when it was dispatched in the last     *)
(* spinOnce of the wait.                                                   *)
(***************************************************************************)
RequestParamResult ==
  rp.result # "none" => (rp.result = "true" <=> rp.got)

(***************************************************************************)
(* C11  Single in-flight sync: while a time-sync request is in flight      *)
(* (published, and since then no sync has completed and no connection      *)
(* timeout was detected), no call publishes another time-sync request,     *)
(* whatever the clock read when the request was published.                 *)
(***************************************************************************)
RECURSIVE SecondRequest(_, _)
SecondRequest(inflight, events) ==
  IF events = <<>> THEN FALSE
  ELSE \/ inflight /\ IsTimeRequest(Head(events))
       \/ SecondRequest(InFlight(inflight, Head(events)), Tail(events))

SingleInFlight ==
  [][SpinOnce => ~SecondRequest(obs.inflight, log')]_vars

(***************************************************************************)
(* C12  Size validation: a call whose first byte is the SIZE_HIGH byte of  *)
(* a declared length above kInputSize increases the invalid-size counter   *)
(* by exactly 1 and stores no payload byte, and when that byte is the only *)
(* one, leaves the receiver reset in FIRST_FF; a declared length of 0      *)
(* goes straight to CHECKSUM; in state MESSAGE,                            *)
(* 0 < remaining_data_bytes_ <= kInputSize and                             *)
(* data_index_ + remaining_data_bytes_ is the declared length.             *)
(***************************************************************************)
SizeHighCall(lengths) ==
  /\ nh.state_ = "SIZE_HIGH"
  /\ port # <<>>
  /\ (obs.declared + port[1] * 256) \in lengths
  /\ ~TimeoutDue
  /\ SpinOnce

SizeValidation ==
  /\ [](nh.state_ = "MESSAGE" =>
          /\ 0 < nh.remaining_data_bytes_
          /\ nh.remaining_data_bytes_ <= kInputSize
          /\ nh.data_index_ + nh.remaining_data_bytes_ = obs.declared)
  /\ [][SizeHighCall((kInputSize + 1)..65535) =>
          /\ nh'.invalid_size_error_count_ = nh.invalid_size_error_count_ + 1
          /\ nh'.message_in = nh.message_in
          /\ \A i \in DOMAIN log' : ~IsWrite(log'[i])
          /\ Len(port) = 1 => nh' = reset([nh EXCEPT !.invalid_size_error_count_ = @ + 1])]_vars
  /\ [][(SizeHighCall({0}) /\ Len(port) = 1) =>
          nh' = [nh EXCEPT !.state_ = "CHECKSUM",
                           !.checksum_ = nh.checksum_ + port[1]]]_vars

SizeValidationWitness ==
  /\ nh.state_ = "MESSAGE"
  /\ nh.data_index_ = 1
  /\ obs.declared = kInputSize
  /\ nh.invalid_size_error_count_ = 1
  /\ obs.sLen = 6
  /\ ret = 1

(***************************************************************************)
(* C13  Timeout and periodic sync are exclusive: in a spinOnce call where  *)
(* the connection timeout fires, the connection check publishes no         *)
(* time-sync request and, when the call dispatches no frame,               *)
(* time_sync_start_ is 0 on return; the connection check publishes a       *)
(* time-sync request only when the client is connected, the timeout has    *)
(* not fired and current - time_sync_end_ > kSyncPeriod.                   *)
(***************************************************************************)
PeriodicRequest(events) ==
  \E i \in DOMAIN events :
    /\ IsTimeRequest(events[i])
    /\ \A j \in 1..(i - 1) : ~IsDispatch(events[j])

NoDispatch(events) == \A i \in DOMAIN events : ~IsDispatch(events[i])

TimeoutExclusive ==
  [][SpinOnce =>
       /\ TimeoutDue =>
            /\ ~PeriodicRequest(log')
            /\ NoDispatch(log') => nh'.time_sync_start_ = 0
       /\ PeriodicRequest(log') =>
            /\ nh.connected_
            /\ ~TimeoutDue
            /\ clock - nh.time_sync_end_ > kSyncPeriod]_vars

(***************************************************************************)
(* C14  Re-sync after disconnect: the first negotiation frame dispatched   *)
(* after a connection timeout was detected (and before a time frame        *)
(* reconnects the client) is followed at once by a time-sync request,      *)
(* ahead of the topic catalogue.                                           *)
(***************************************************************************)
RECURSIVE Resynced(_, _)
Resynced(disconnected, events) ==
  IF events = <<>> THEN TRUE
  ELSE LET e == Head(events)
       IN  /\ (disconnected /\ IsDispatch(e) /\ e.topic = TOPIC_NEGOTIATION) =>
                (Len(events) >= 2 /\ IsTimeRequest(events[2]))
           /\ Resynced(Disconnected(disconnected, e), Tail(events))

ResyncAfterDisconnect ==
  [][SpinOnce => Resynced(obs.disconnected, log')]_vars

(***************************************************************************)
(* C15  Time-sync completion: a spinOnce call that dispatches a            *)
(* checksum-valid frame on topic 10 returns with connected_ true,          *)
(* time_sync_end_ the clock of the call, time_sync_start_ 0 and sync_time_ *)
(* the decoded timestamp advanced by half the time since the request,      *)
(* (time_sync_end_ - time_sync_start_ at the dispatch) / 2 milliseconds.   *)
(***************************************************************************)
IsTimeFrame(e) == IsDispatch(e) /\ e.topic = ID_TIME

(* time_sync_start_ when the frame is dispatched: the connection check of  *)
(* the same call may have cleared or set it                                *)
StartAtDispatch(before, events, t) ==
  IF \E i \in DOMAIN events : IsTimeRequest(events[i]) THEN t
  ELSE IF \E i \in DOMAIN events : events[i].k = "timeout" THEN 0
  ELSE before

TimeSyncCompletion ==
  [][(SpinOnce /\ \E i \in DOMAIN log' : IsTimeFrame(log'[i])) =>
       /\ nh'.connected_
       /\ nh'.time_sync_end_ = clock
       /\ nh'.time_sync_start_ = 0
       /\ nh'.sync_time_ =
            AddMillis(TimeData(nh'.message_in),
                      (clock - StartAtDispatch(nh.time_sync_start_, log', clock)) \div 2)]_vars

(***************************************************************************)
(* C16  Dispatch by topic: the dispatch of a checksum-valid frame whose    *)
(* topic is in 100..100+kMaxSubscribers-1 with a receiver bound in slot    *)
(* topic-100 calls that receiver once, with the payload and length of the  *)
(* frame, and increases the malformed-message counter by 1 exactly when    *)
(* the callback fails; the dispatch of a frame whose topic is none of 0,   *)
(* 6, 10 and no bound subscriber topic calls nobody and increases the      *)
(* checksum-error counter by exactly 1.                                    *)
(***************************************************************************)
IsReceive(e) == e.k = "receive"

Malformed(ok) == IF ok THEN 0 ELSE 1

Dispatched(e) ==
  LET slot == e.topic - 100
      receives == SelectSeq(log', IsReceive)
  IN  IF slot \in 0..(kMaxSubscribers - 1) /\ nh.receivers[slot] # NULL
        THEN \E ok \in BOOLEAN :
               /\ receives = <<EvReceive(nh.receivers[slot], e.data, e.n, ok)>>
               /\ nh'.malformed_message_error_count_ =
                    nh.malformed_message_error_count_ + Malformed(ok)
               /\ nh'.checksum_error_count_ = nh.checksum_error_count_
      ELSE IF e.topic \notin {TOPIC_NEGOTIATION, ID_PARAMETER_REQUEST, ID_TIME}
        THEN /\ receives = <<>>
             /\ nh'.checksum_error_count_ = nh.checksum_error_count_ + 1
             /\ nh'.malformed_message_error_count_ = nh.malformed_message_error_count_
      ELSE TRUE

DispatchByTopic ==
  [][SpinOnce => \A i \in DOMAIN log' : IsDispatch(log'[i]) => Dispatched(log'[i])]_vars

DispatchByTopicWitness ==
  /\ \E i \in DOMAIN log : IsReceive(log[i]) /\ log[i].name = Receivers[2]
                             /\ log[i].data = <<255>> /\ log[i].ty = "failed"
  /\ nh.malformed_message_error_count_ = 1
  /\ nh.checksum_error_count_ = 1
  /\ nh.publishers[0] # NULL

(***************************************************************************)
(* C17  Registry capacity and contiguity: the occupied publisher slots and *)
(* the occupied subscriber slots are each a prefix 0..k-1 of their table,  *)
(* k at most kMaxPublishers resp. kMaxSubscribers; advertise or            *)
(* registerReceiver called on a full table returns false and changes       *)
(* neither the node handle nor the id of any record; no step empties or    *)
(* rebinds an occupied slot.                                               *)
(***************************************************************************)
IsPrefix(table, k) == Bound(table) = 0..(k - 1)

Full(table) == Bound(table) = DOMAIN table

SlotsKept(before, after) ==
  \A i \in Bound(before) : after[i] = before[i]

RegistryContiguous ==
  /\ [](/\ \E k \in 0..kMaxPublishers : IsPrefix(nh.publishers, k)
        /\ nh.total_receivers_ <= kMaxSubscribers
        /\ IsPrefix(nh.receivers, nh.total_receivers_))
  /\ [][(Full(nh.publishers) /\ Advertise) =>
          /\ log' = <<EvReturn("advertise", FALSE)>>
          /\ nh' = nh
          /\ pub_id' = pub_id]_vars
  /\ [][(Full(nh.receivers) /\ RegisterReceiver) =>
          /\ log' = <<EvReturn("registerReceiver", FALSE)>>
          /\ nh' = nh
          /\ sub_id' = sub_id]_vars
  /\ [][/\ SlotsKept(nh.publishers, nh'.publishers)
        /\ SlotsKept(nh.receivers, nh'.receivers)]_vars

RegistryContiguousWitness ==
  /\ log = <<EvReturn("registerReceiver", FALSE)>>
  /\ Full(nh.receivers)
  /\ Full(nh.publishers)
  /\ sub_id[Receivers[kMaxSubscribers + 1]] = 0
  /\ nh.state_error_count_ > 0
  /\ ~nh.connected_
  /\ obs.disconnected

(***************************************************************************)
(* C18  requestParam terminates: a call of requestParam whose timeout      *)
(* lies within the span the clock can still advance eventually returns,    *)
(* whatever the peer sends, and it returns only from a round of its loop,  *)
(* after spinOnce has run.                                                 *)
(***************************************************************************)
ClockCanPass(r) == r.start_time + r.time_out < MaxClock

RequestParamTerminates ==
  /\ (rp.pc = "loop" /\ ClockCanPass(rp)) ~> (rp.pc = "idle")
  /\ [][(rp.pc = "loop" /\ rp'.pc = "idle") =>
          /\ RequestParamSpin
          /\ rp'.result \in {"true", "false"}]_vars

RequestParamTerminatesWitness ==
  /\ rp.pc = "idle"
  /\ rp.result = "false"
  /\ ~rp.got
  /\ rp.time_out = 2
  /\ clock = rp.start_time + 3
  /\ nh.state_ # "FIRST_FF"

(***************************************************************************)
(* C19  Scenario S5, as claimed: with exactly one publisher advertised,    *)
(* exactly one subscriber registered and no time sync in flight, the       *)
(* dispatch of a valid frame on topic 0 publishes, in this order, one      *)
(* time-sync request, two topic-info records on topic 0 and one on         *)
(* topic 1.                                                                *)
(***************************************************************************)
IsPublish(e) == e.k = "publish"

(* the topics of the messages a call publishes after its event i *)
PublishedAfter(events, i) ==
  LET after == SelectSeq(SubSeq(events, i + 1, Len(events)), IsPublish)
  IN  [j \in DOMAIN after |-> after[j].topic]

OneOfEach ==
  /\ Cardinality(Bound(nh.publishers)) = 1
  /\ Cardinality(Bound(nh.receivers)) = 1
  /\ ~obs.inflight

NegotiationPublishes(topics) ==
  (OneOfEach /\ SpinOnce) =>
    \A i \in DOMAIN log' :
      (IsDispatch(log'[i]) /\ log'[i].topic = TOPIC_NEGOTIATION) =>
        PublishedAfter(log', i) = topics

ScenarioTwoPublisherRecords ==
  [][NegotiationPublishes(<<ID_TIME, TOPIC_PUBLISHERS, TOPIC_PUBLISHERS,
                            TOPIC_SUBSCRIBERS>>)]_vars

(***************************************************************************)
(* C19  Scenario S5, amended: the dispatch publishes one time-sync         *)
(* request, then one topic-info record on topic 0, then one on topic 1.    *)
(***************************************************************************)
ScenarioOnePublisherRecord ==
  [][NegotiationPublishes(<<ID_TIME, TOPIC_PUBLISHERS, TOPIC_SUBSCRIBERS>>)]_vars

ScenarioWitness ==
  /\ Cardinality(Bound(nh.publishers)) = 1
  /\ Cardinality(Bound(nh.receivers)) = 1
  /\ Len(log) = 4
  /\ NegotiationAt(1)
  /\ PublishedAfter(log, 1) = <<ID_TIME, TOPIC_PUBLISHERS, TOPIC_SUBSCRIBERS>>
  /\ log[3].n = publisherId(0)
  /\ log[4].n = receiverId(0)

(***************************************************************************)
(* C20  Local recovery: a spinOnce call that consumes one byte and finds   *)
(* a receive-side error (a byte other than 0xFF in FIRST_FF or SECOND_FF,  *)
(* which adds exactly 1 to state_error_count_; a declared length above     *)
(* kInputSize; a checksum mismatch; a topic nobody handles) leaves the     *)
(* receiver in FIRST_FF with remaining_data_bytes_, topic_, data_index_    *)
(* and checksum_ zero and leaves the tables, connected_, time_sync_start_, *)
(* time_sync_end_ and sync_time_ as they were; no step decreases an error  *)
(* counter.                                                                *)
(***************************************************************************)
SyncDue == nh.connected_ /\ clock - nh.time_sync_end_ > kSyncPeriod

FramingError ==
  nh.state_ \in {"FIRST_FF", "SECOND_FF"} /\ port[1] # 255

OversizeError ==
  nh.state_ = "SIZE_HIGH" /\ nh.remaining_data_bytes_ + port[1] * 256 > kInputSize

MismatchError ==
  nh.state_ = "CHECKSUM" /\ (nh.checksum_ + port[1]) % 256 # 255

UnrecognizedTopic ==
  /\ nh.state_ = "CHECKSUM"
  /\ (nh.checksum_ + port[1]) % 256 = 255
  /\ nh.topic_ \notin {TOPIC_NEGOTIATION, ID_PARAMETER_REQUEST, ID_TIME}
  /\ ~(nh.topic_ - 100 \in Bound(nh.receivers))

ErrorCall(error) ==
  /\ Len(port) = 1
  /\ error
  /\ ~TimeoutDue
  /\ ~SyncDue
  /\ SpinOnce

Recovered ==
  /\ nh'.state_ = "FIRST_FF"
  /\ nh'.remaining_data_bytes_ = 0
  /\ nh'.topic_ = 0
  /\ nh'.data_index_ = 0
  /\ nh'.checksum_ = 0
  /\ nh'.publishers = nh.publishers
  /\ nh'.receivers = nh.receivers
  /\ nh'.total_receivers_ = nh.total_receivers_
  /\ nh'.connected_ = nh.connected_
  /\ nh'.time_sync_start_ = nh.time_sync_start_
  /\ nh'.time_sync_end_ = nh.time_sync_end_
  /\ nh'.sync_time_ = nh.sync_time_

ErrorCounters(n) ==
  <<n.state_error_count_, n.invalid_size_error_count_,
    n.checksum_error_count_, n.malformed_message_error_count_>>

LocalRecovery ==
  /\ [][ErrorCall(FramingError) =>
          /\ Recovered
          /\ nh'.state_error_count_ = nh.state_error_count_ + 1]_vars
  /\ [][ErrorCall(OversizeError \/ MismatchError \/ UnrecognizedTopic) => Recovered]_vars
  /\ [][\A i \in 1..4 : ErrorCounters(nh')[i] >= ErrorCounters(nh)[i]]_vars

LocalRecoveryWitness ==
  /\ ret = 1
  /\ nh.state_ = "FIRST_FF"
  /\ nh.connected_
  /\ clock - nh.time_sync_end_ <= kSyncPeriod
  /\ nh.time_sync_start_ = 0
  /\ nh.state_error_count_ = 1
  /\ log = <<>>
  /\ port = <<>>
  /\ sent = 2

====
